---- MODULE Spec2Model ----
(***************************************************************************)
(* Engagement tracking (XP, levels, voice sessions), the stat-channel      *)
(* reconciliation, the rank queries and the meteo city lists of            *)
(* general_bot.py, as a state machine.                                     *)
(*                                                                         *)
(* Time is time.time() in whole seconds.  Every handler is one action per  *)
(* run between two suspension points (await on network I/O); the parts of  *)
(* a handler separated by such an await are separate actions.              *)
(***************************************************************************)
EXTENDS Integers, Sequences, FiniteSets, TLC

\* ------------------------------------------------------------------ bounds

\* time.time() when the process starts (any value far above the cooldown).
StartTime == 20
\* The model stops the clock here.
MaxClock == 31
\* Handlers of one member that may be suspended at process_commands at once.
MaxPending == 1
\* Voice handlers of one guild that may be suspended in chan.send at once.
MaxSending == 1
\* update_server_stats calls that may be suspended in a rename at once.
MaxPasses == 1
\* Members a guild may have beyond the modelled ones.
MaxOthers == 1
\* Largest profile xp the model lets add_xp start from.
MaxXp == 330
\* Largest voice_time the model lets add_voice_time start from.
MaxVoiceTime == 150

\* ------------------------------------------------------- program constants

\* on_message: time.time() - user.get("last_xp", 0) > 10
Cooldown == 10
\* on_message: random.randint(15, 25)
MsgXpMin == 15
MsgXpMax == 25
\* get_leaderboard: [:50]
LeaderboardCap == 50

Humans == {"u1"}
Bots == {"b1"}
Users == Humans \cup Bots
\* A bug the handlers could have: the test of the bot flag is missing.
IsBot_nobody(uid) == FALSE

\* message.author.bot / member.bot
IsBot(uid) == uid \in Bots

\* Seconds the clock may advance between two events.
TickSteps == {5, 6}
\* The amounts random.randint(15, 25) is taken to return.
MsgAmounts == {MsgXpMin, MsgXpMax}

\* ------------------------------------------------------------- DataManager

\* A db value is the DataManager: data (self.data, uid -> profile), order (the
\* keys of self.data in insertion order, which a dict keeps) and file (the
\* content of general_data.json: data and order as last saved).

\* get_user's literal for a new member.
NewProfile == [xp |-> 0, level |-> 1, messages |-> 0, voice_time |-> 0, last_xp |-> 0]

\* 5 * level**2 + 50 * level + 100
next_level_xp(level) == 5 * (level * level) + 50 * level + 100

\* save_data: json.dump of the whole of self.data.
save_data(db) == [db EXCEPT !.file = [data |-> db.data, order |-> db.order]]

\* get_user: inserts the default profile of an unknown member; does not save.
get_user(db, uid) ==
    LET d1 == IF uid \in DOMAIN db.data THEN db.data ELSE db.data @@ (uid :> NewProfile)
        d2 == IF "voice_time" \in DOMAIN d1[uid]
              THEN d1
              ELSE [d1 EXCEPT ![uid] = @ @@ [voice_time |-> 0]]
    IN [db EXCEPT !.data = d2,
                  !.order = IF uid \in DOMAIN db.data THEN @ ELSE Append(@, uid)]

\* A bug add_xp could have: the level-up resets xp to the overflow.
add_xp_reset(db, uid, amount) ==
    LET d1 == get_user(db, uid)
        xp == d1.data[uid].xp + amount
        lvl == d1.data[uid].level
    IN IF xp >= next_level_xp(lvl)
       THEN [db |-> save_data([d1 EXCEPT !.data[uid].xp = xp - next_level_xp(lvl),
                                         !.data[uid].level = lvl + 1]),
             levelup |-> TRUE, level |-> lvl + 1]
       ELSE [db |-> save_data([d1 EXCEPT !.data[uid].xp = xp]),
             levelup |-> FALSE, level |-> lvl]

\* A bug add_xp could have: the threshold is tested with > instead of >=.
add_xp_strict(db, uid, amount) ==
    LET d1 == get_user(db, uid)
        xp == d1.data[uid].xp + amount
        d2 == [d1 EXCEPT !.data[uid].xp = xp]
        lvl == d2.data[uid].level
    IN IF xp > next_level_xp(lvl)
       THEN [db |-> save_data([d2 EXCEPT !.data[uid].level = lvl + 1]),
             levelup |-> TRUE, level |-> lvl + 1]
       ELSE [db |-> save_data(d2), levelup |-> FALSE, level |-> lvl]

\* add_xp: returns (levelup, level) and the DataManager it leaves.
add_xp(db, uid, amount) ==
    LET d1 == get_user(db, uid)
        xp == d1.data[uid].xp + amount
        d2 == [d1 EXCEPT !.data[uid].xp = xp]
        lvl == d2.data[uid].level
    IN IF xp >= next_level_xp(lvl)
       THEN [db |-> save_data([d2 EXCEPT !.data[uid].level = lvl + 1]),
             levelup |-> TRUE, level |-> lvl + 1]
       ELSE [db |-> save_data(d2), levelup |-> FALSE, level |-> lvl]

\* A bug xp_gain could have: 10 XP for each full minute only.
xp_gain_full_minutes(seconds) == (seconds \div 60) * 10

\* int((seconds / 60) * 10); for whole seconds >= 0 the float expression
\* equals the integer quotient.
xp_gain(seconds) == (seconds * 10) \div 60

\* add_voice_time: returns (levelup, level), the DataManager it leaves, and
\* whether it called add_xp.
add_voice_time(db, uid, seconds) ==
    LET d1 == get_user(db, uid)
        d2 == [d1 EXCEPT !.data[uid].voice_time = @ + seconds]
    IN IF xp_gain(seconds) > 0
       THEN add_xp(d2, uid, xp_gain(seconds)) @@ [xp_called |-> TRUE]
       ELSE [db |-> save_data(d2), levelup |-> FALSE, level |-> d2.data[uid].level,
             xp_called |-> FALSE]

\* --------------------------------------------------------------- handlers

\* A bug the cooldown test could have: the difference is taken for
\* milliseconds, so any later message is awarded.
eligible_any_later(now, last_xp) == (now - last_xp) * 1000 > Cooldown

\* on_message: time.time() - user.get("last_xp", 0) > 10
eligible(now, last_xp) == now - last_xp > Cooldown

\* A bug on_message could have: the cooldown restarts at every message.
on_message_xp_restart(db, uid, now, amount) ==
    LET d1 == get_user(db, uid)
        d2 == [d1 EXCEPT !.data[uid].last_xp = now]
    IN IF eligible(now, d1.data[uid].last_xp)
       THEN add_xp([d2 EXCEPT !.data[uid].messages = @ + 1], uid, amount)
                @@ [awarded |-> TRUE]
       ELSE [db |-> d2, levelup |-> FALSE, level |-> d2.data[uid].level,
             awarded |-> FALSE]

\* A bug on_message could have: messages counts every message handled, the
\* rejected ones too.
on_message_xp_count_all(db, uid, now, amount) ==
    LET d1 == get_user(db, uid)
        d2 == [d1 EXCEPT !.data[uid].messages = @ + 1]
    IN IF eligible(now, d1.data[uid].last_xp)
       THEN add_xp([d2 EXCEPT !.data[uid].last_xp = now], uid, amount)
                @@ [awarded |-> TRUE]
       ELSE [db |-> d2, levelup |-> FALSE, level |-> d2.data[uid].level,
             awarded |-> FALSE]

\* on_message from get_user to add_xp (no suspension in between): the
\* DataManager it leaves, add_xp's result and whether XP was awarded.
on_message_xp(db, uid, now, amount) ==
    LET d1 == get_user(db, uid)
    IN IF eligible(now, d1.data[uid].last_xp)
       THEN add_xp([d1 EXCEPT !.data[uid].messages = @ + 1,
                              !.data[uid].last_xp = now], uid, amount)
                @@ [awarded |-> TRUE]
       ELSE [db |-> d1, levelup |-> FALSE, level |-> d1.data[uid].level,
             awarded |-> FALSE]

\* A bug the branch test could have: entering any channel opens a session.
voice_kind_rejoin(before, after) ==
    IF after # 0 THEN "join"
    ELSE IF before # 0 /\ after = 0 THEN "leave"
    ELSE "move"

\* The branch on_voice_state_update takes for a change of channel.
voice_kind(before, after) ==
    IF before = 0 /\ after # 0 THEN "join"
    ELSE IF before # 0 /\ after = 0 THEN "leave"
    ELSE "move"

\* A bug the leave branch could have: the session is read, not removed.
pop_keep(vs, uid) == vs

\* voice_sessions.pop(member.id)
pop(vs, uid) == [u \in DOMAIN vs \ {uid} |-> vs[u]]

NoVoice(db, vs) ==
    [db |-> db, vs |-> vs, levelup |-> FALSE, calls |-> 0, xp_called |-> FALSE,
     duration |-> 0]

\* A bug the leave branch could have: a missing session counts as one that
\* starts now (pop with a default).
on_voice_default(db, vs, uid, before, after, now) ==
    CASE voice_kind(before, after) = "join" ->
           [NoVoice(db, vs) EXCEPT !.vs = (uid :> now) @@ vs]
      [] voice_kind(before, after) = "leave" ->
           LET start == IF uid \in DOMAIN vs THEN vs[uid] ELSE now
               r == add_voice_time(db, uid, now - start)
           IN [db |-> r.db, vs |-> pop(vs, uid), levelup |-> r.levelup,
               calls |-> 1, xp_called |-> r.xp_called, duration |-> now - start]
      [] OTHER -> NoVoice(db, vs)

\* on_voice_state_update for a member that is no bot, up to the level-up
\* message: the DataManager and voice_sessions it leaves, the add_voice_time
\* calls it made and the duration it passed.
on_voice(db, vs, uid, before, after, now) ==
    CASE voice_kind(before, after) = "join" ->
           [NoVoice(db, vs) EXCEPT !.vs = (uid :> now) @@ vs]
      [] voice_kind(before, after) = "leave" ->
           IF uid \in DOMAIN vs
           THEN LET r == add_voice_time(db, uid, now - vs[uid])
                IN [db |-> r.db, vs |-> pop(vs, uid), levelup |-> r.levelup,
                    calls |-> 1, xp_called |-> r.xp_called, duration |-> now - vs[uid]]
           ELSE NoVoice(db, vs)
      [] OTHER -> NoVoice(db, vs)

\* sorted(..., key=xp, reverse=True): a stable sort, so members of equal xp
\* keep their insertion order.
RECURSIVE sorted_by_xp(_, _)
sorted_by_xp(d, keys) ==
    IF keys = <<>> THEN <<>>
    ELSE LET rest == sorted_by_xp(d, SubSeq(keys, 1, Len(keys) - 1))
             u == keys[Len(keys)]
             ahead == {i \in 1..Len(rest) : d[rest[i]].xp >= d[u].xp}
             n == Cardinality(ahead)
         IN SubSeq(rest, 1, n) \o <<u>> \o SubSeq(rest, n + 1, Len(rest))

\* get_leaderboard: the first 50 of the sorted items.
get_leaderboard(db) ==
    LET all == sorted_by_xp(db.data, db.order)
    IN SubSeq(all, 1, IF Len(all) < LeaderboardCap THEN Len(all) ELSE LeaderboardCap)

\* A bug rank could have: the rank counts the members of higher xp only, so
\* members of equal xp share a rank.
rank_pos_ties(db, uid) ==
    1 + Cardinality({v \in DOMAIN db.data : db.data[v].xp > db.data[uid].xp})

\* rank: [uid for uid, _ in all_users].index(str(target.id)) + 1, "N/A" when
\* index raises.
rank_pos(db, uid) ==
    LET all == sorted_by_xp(db.data, db.order)
        at == {i \in 1..Len(all) : all[i] = uid}
    IN IF at = {} THEN "N/A" ELSE CHOOSE i \in at : \A j \in at : i <= j

\* Whether [uid for uid, _ in all_users].index(str(target.id)) finds the
\* target (it raises, and rank_pos is "N/A", when it does not).
rank_found(db, uid) ==
    LET all == sorted_by_xp(db.data, db.order)
    IN \E i \in 1..Len(all) : all[i] = uid

\* ------------------------------------------------------------------ state

VARIABLES
    clock,           \* time.time(), whole seconds
    data,            \* db.data: uid -> profile
    order,           \* the keys of db.data in insertion order
    file,            \* general_data.json as last written by save_data
    voice_sessions,  \* GeneralBot.voice_sessions: uid -> join time
    channel,         \* platform: the voice channel each member is in (0: none)
    joined_at,       \* platform: when each human member entered voice (-1: not in voice)
    pending,         \* on_message handlers suspended in process_commands, per member
    sending,         \* voice handlers suspended in chan.send, per guild
    stat_channels,   \* per guild, the display channels db.config binds and that exist
    name,            \* per guild and display channel, the channel's current name
    member_count,    \* platform: guild.member_count
    online_count,    \* platform: members whose status is not offline
    passes,          \* update_server_stats calls suspended in a channel edit
    loop_at,         \* update_stats_loop: index of the guild it is reconciling (0: idle)
    meteo_cities,    \* db.config[gid]["meteo_cities"], for the guilds that have the key
    first_added,     \* per guild, the cities in the order each was first added (history)
    last             \* what the last step did (observation only)

vars == <<clock, data, order, file, voice_sessions, channel, joined_at, pending, sending,
          stat_channels, name, member_count, online_count, passes, loop_at,
          meteo_cities, first_added, last>>

xpVars == <<data, order, file, voice_sessions, pending>>
voiceVars == <<channel, joined_at, sending>>
statVars == <<stat_channels, name, member_count, online_count, passes, loop_at>>
meteoVars == <<meteo_cities, first_added>>

\* self.guilds, in iteration order.
GuildOrder == <<"g1", "g2">>
Guilds == {GuildOrder[i] : i \in 1..Len(GuildOrder)}
\* Every modelled member belongs to the first guild.
GuildOf(uid) == "g1"
VoiceChannels == {1, 2}

\* The three display channels in the order update_server_stats treats them.
KindOrder == <<"members", "online", "voice">>
Kinds == {"members", "online", "voice"}

\* f"... : {count}": the label of a display channel.
Label(kind, count) ==
    CASE kind = "members" -> <<"Membres", count>>
      [] kind = "online" -> <<"En ligne", count>>
      [] kind = "voice" -> <<"En vocal", count>>

NoFn == [x \in {} |-> 0]

DB == [data |-> data, order |-> order, file |-> file]

\* ------------------------------------------------------ update_server_stats

\* sum(len(vc.members) for vc in guild.voice_channels): bots are members too.
voice_count(ch, g) == Cardinality({u \in Users : GuildOf(u) = g /\ ch[u] # 0})

\* member_count, online_count and voice_count as update_server_stats reads them.
Counts(mc, ch, g) ==
    [members |-> mc[g], online |-> online_count[g], voice |-> voice_count(ch, g)]

\* A bug the rename test could have: every bound channel is renamed.
first_stale_always(chans, names, counts, from) ==
    LET idx == {i \in from..Len(KindOrder) : KindOrder[i] \in chans}
    IN IF idx = {} THEN 0 ELSE CHOOSE i \in idx : \A j \in idx : i <= j

\* The first display channel, from position `from` on, that exists and whose
\* name differs from its label (0: none): the next `await c.edit(name=...)`.
first_stale(chans, names, counts, from) ==
    LET idx == {i \in from..Len(KindOrder) :
                   /\ KindOrder[i] \in chans
                   /\ names[KindOrder[i]] # Label(KindOrder[i], counts[KindOrder[i]])}
    IN IF idx = {} THEN 0 ELSE CHOOSE i \in idx : \A j \in idx : i <= j

\* update_server_stats up to its first suspension: the pass it leaves
\* suspended in a rename, if any.
update_server_stats(g, mc, ch, names, owner) ==
    LET counts == Counts(mc, ch, g)
        i == first_stale(stat_channels[g], names[g], counts, 1)
    IN IF i = 0 THEN <<>>
       ELSE <<[guild |-> g, counts |-> counts, at |-> i, owner |-> owner]>>

\* What a step reports of the passes it began: the renames it issued.
Issued(new) == {<<new[i].guild, KindOrder[new[i].at]>> : i \in 1..Len(new)}

\* A bug update_stats_loop could have: it iterates over no guild (self.guilds
\* read before the bot is ready).
loop_run_idle(i, names) == [at |-> 0, new |-> <<>>, called |-> {}]

\* update_stats_loop from guild index i on: the guilds it calls
\* update_server_stats for until a pass suspends, and that pass.
RECURSIVE loop_run(_, _)
loop_run(i, names) ==
    IF i > Len(GuildOrder) THEN [at |-> 0, new |-> <<>>, called |-> {}]
    ELSE LET new == update_server_stats(GuildOrder[i], member_count, channel, names, "loop")
         IN IF new # <<>>
            THEN [at |-> i, new |-> new, called |-> {GuildOrder[i]}]
            ELSE LET r == loop_run(i + 1, names)
                 IN [r EXCEPT !.called = @ \cup {GuildOrder[i]}]

\* A bug update_server_stats could have: the error of a rename is not caught,
\* so it leaves update_stats_loop and ends the iteration.
loop_after_raise(p, ok, nxt, names) ==
    IF nxt = 0 /\ p.owner = "loop" /\ ok
    THEN loop_run(loop_at + 1, names)
    ELSE [at |-> IF p.owner = "loop" /\ ~ok THEN 0 ELSE loop_at, new |-> <<>>,
          called |-> {}]

\* update_stats_loop when pass p comes back from a rename (ok, or raised and
\* caught) with nxt its next rename (0: the pass is over): when the pass was
\* the loop's own and is over, the loop goes on to the next guilds.
loop_after(p, ok, nxt, names) ==
    IF nxt = 0 /\ p.owner = "loop"
    THEN loop_run(loop_at + 1, names)
    ELSE [at |-> loop_at, new |-> <<>>, called |-> {}]

\* ------------------------------------------------------------------- Init

\* The documents general_data.json may hold when the process starts: nothing,
\* or a profile an earlier run saved (ten messages; the last one 5 s before
\* this start).
InitDocs ==
    { [data |-> NoFn, order |-> <<>>],
      [data |-> ("u1" :> [xp |-> 154, level |-> 1, messages |-> 10, voice_time |-> 0,
                          last_xp |-> StartTime - 5]),
       order |-> <<"u1">>] }

\* Members of a guild that the model names.
MinMembers(g) == Cardinality({u \in Users : GuildOf(u) = g})

\* GeneralBot(): voice_sessions is empty and no handler runs; members may
\* already be in voice.
InitBot ==
    /\ clock = StartTime
    /\ voice_sessions = NoFn
    /\ channel \in [Users -> {0, 1}]
    /\ \A u \in Bots : channel[u] = 0
    /\ joined_at = [u \in Humans |-> IF channel[u] # 0 THEN 0 ELSE -1]
    /\ pending = [u \in Users |-> 0]
    /\ sending = [g \in Guilds |-> 0]
    /\ passes = <<>>
    /\ loop_at = 0
    /\ meteo_cities = NoFn
    /\ first_added = [g \in Guilds |-> <<>>]
    /\ last = [op |-> "init"]

\* DataManager() and GeneralBot(): general_data.json is loaded.
InitCommon ==
    /\ \E doc \in InitDocs : data = doc.data /\ order = doc.order /\ file = doc
    /\ InitBot

\* No guild has stat channels bound (server_config.json is empty).
Init ==
    /\ InitCommon
    /\ stat_channels = [g \in Guilds |-> {}]
    /\ name = [g \in Guilds |-> [k \in Kinds |-> Label(k, 0)]]
    /\ member_count = [g \in Guilds |-> MinMembers(g)]
    /\ online_count = [g \in Guilds |-> 0]

\* ---------------------------------------------------------------- actions

SetDB(db) == data' = db.data /\ order' = db.order /\ file' = db.file

\* Time passes.
Tick(d) ==
    /\ clock + d <= MaxClock
    /\ clock' = clock + d
    /\ last' = [op |-> "tick"]
    /\ UNCHANGED <<xpVars, voiceVars, statVars, meteoVars>>

\* on_message from line 309 on.
MessageXp(m) ==
    \E amount \in MsgAmounts :
        LET r == on_message_xp(DB, m, clock, amount)
        IN /\ SetDB(r.db)
           /\ last' = [op |-> "message", uid |-> m,
                       outcome |-> IF r.awarded THEN "awarded" ELSE "cooldown",
                       levelup |-> r.levelup]

\* on_message: a message of member m arrives; command says whether
\* process_commands suspends the handler (it runs a command that awaits).
OnMessage(m, in_guild, command) ==
    /\ IF IsBot(m) \/ ~in_guild
       THEN /\ last' = [op |-> "message", uid |-> m, outcome |-> "ignored",
                        levelup |-> FALSE]
            /\ UNCHANGED <<data, order, file, pending>>
       ELSE IF command
       THEN /\ pending[m] < MaxPending
            /\ pending' = [pending EXCEPT ![m] = @ + 1]
            /\ last' = [op |-> "message", uid |-> m, outcome |-> "suspended",
                        levelup |-> FALSE]
            /\ UNCHANGED <<data, order, file>>
       ELSE /\ MessageXp(m)
            /\ UNCHANGED pending
    /\ UNCHANGED <<clock, voice_sessions, voiceVars, statVars, meteoVars>>

\* A bug on_message could have: the cooldown test is made before
\* process_commands, so the handler that resumes awards without a test.
OnMessageResume_unchecked(m) ==
    /\ pending[m] > 0
    /\ pending' = [pending EXCEPT ![m] = @ - 1]
    /\ \E amount \in MsgAmounts :
           LET d1 == get_user(DB, m)
               r == add_xp([d1 EXCEPT !.data[m].messages = @ + 1,
                                      !.data[m].last_xp = clock], m, amount)
           IN /\ SetDB(r.db)
              /\ last' = [op |-> "message", uid |-> m, outcome |-> "awarded",
                          levelup |-> r.levelup]
    /\ UNCHANGED <<clock, voice_sessions, voiceVars, statVars, meteoVars>>

\* on_message resumes after process_commands.
OnMessageResume(m) ==
    /\ pending[m] > 0
    /\ pending' = [pending EXCEPT ![m] = @ - 1]
    /\ MessageXp(m)
    /\ UNCHANGED <<clock, voice_sessions, voiceVars, statVars, meteoVars>>

\* What the platform reports: the member entered voice, left it, or stayed
\* in it (another channel, or a mute in the same one).
Transition(before, after) ==
    IF before = 0 THEN "join" ELSE IF after = 0 THEN "leave" ELSE "move"

\* on_voice_state_update: member m goes from channel[m] to `after`.
OnVoiceStateUpdate(m, after) ==
    LET before == channel[m]
        kind == Transition(before, after)
        g == GuildOf(m)
        ch == [channel EXCEPT ![m] = after]
        r == on_voice(DB, voice_sessions, m, before, after, clock)
        new == update_server_stats(g, member_count, ch, name, "event")
    IN /\ ~(before = 0 /\ after = 0)
       /\ channel' = ch
       /\ joined_at' = IF IsBot(m) THEN joined_at
                        ELSE [joined_at EXCEPT ![m] = CASE kind = "join" -> clock
                                                        [] kind = "leave" -> -1
                                                        [] OTHER -> @]
       /\ IF IsBot(m)
          THEN /\ last' = [op |-> "voice", uid |-> m, kind |-> kind, bot |-> TRUE,
                           had_session |-> FALSE, calls |-> 0, xp_called |-> FALSE,
                           duration |-> 0, levelup |-> FALSE, called |-> {},
                           issued |-> {}]
               /\ UNCHANGED <<data, order, file, voice_sessions, sending, passes>>
          ELSE /\ SetDB(r.db)
               /\ voice_sessions' = r.vs
               /\ IF r.levelup
                  THEN /\ sending[g] < MaxSending
                       /\ sending' = [sending EXCEPT ![g] = @ + 1]
                       /\ UNCHANGED passes
                  ELSE /\ Len(passes) + Len(new) <= MaxPasses
                       /\ passes' = passes \o new
                       /\ UNCHANGED sending
               /\ last' = [op |-> "voice", uid |-> m, kind |-> kind, bot |-> FALSE,
                           had_session |-> m \in DOMAIN voice_sessions,
                           calls |-> r.calls, xp_called |-> r.xp_called,
                           duration |-> r.duration, levelup |-> r.levelup,
                           called |-> IF r.levelup THEN {} ELSE {g},
                           issued |-> IF r.levelup THEN {} ELSE Issued(new)]
       /\ UNCHANGED <<clock, pending, stat_channels, name, member_count,
                      online_count, loop_at, meteoVars>>

\* on_voice_state_update resumes after chan.send: the send succeeded, or it
\* raised (and the handler ends there).
VoiceSendDone(g, ok) ==
    LET new == IF ok THEN update_server_stats(g, member_count, channel, name, "event")
               ELSE <<>>
    IN /\ sending[g] > 0
       /\ sending' = [sending EXCEPT ![g] = @ - 1]
       /\ Len(passes) + Len(new) <= MaxPasses
       /\ passes' = passes \o new
       /\ last' = [op |-> "voice_sent", guild |-> g, ok |-> ok,
                   called |-> IF ok THEN {g} ELSE {}, issued |-> Issued(new)]
       /\ UNCHANGED <<clock, xpVars, channel, joined_at, stat_channels, name,
                      member_count, online_count, loop_at, meteoVars>>

\* The rank command for member `target`.
Rank(target) ==
    LET db == get_user(DB, target)
    IN /\ SetDB(db)
       /\ last' = [op |-> "rank", uid |-> target, rank_pos |-> rank_pos(db, target),
                   found |-> rank_found(db, target)]
       /\ UNCHANGED <<clock, voice_sessions, pending, voiceVars, statVars, meteoVars>>

\* The leaderboard command and GET /api/leaderboard.
Leaderboard ==
    /\ last' = [op |-> "leaderboard", top |-> get_leaderboard(DB)]
    /\ UNCHANGED <<clock, xpVars, voiceVars, statVars, meteoVars>>

\* on_member_join: update_server_stats(member.guild).
OnMemberJoin(g) ==
    LET mc == [member_count EXCEPT ![g] = @ + 1]
        new == update_server_stats(g, mc, channel, name, "event")
    IN /\ member_count[g] < MinMembers(g) + MaxOthers
       /\ member_count' = mc
       /\ Len(passes) + Len(new) <= MaxPasses
       /\ passes' = passes \o new
       /\ last' = [op |-> "member_join", guild |-> g, called |-> {g},
                   issued |-> Issued(new)]
       /\ UNCHANGED <<clock, xpVars, voiceVars, stat_channels, name, online_count,
                      loop_at, meteoVars>>

\* on_member_remove: update_server_stats(member.guild).
OnMemberRemove(g) ==
    LET mc == [member_count EXCEPT ![g] = @ - 1]
        new == update_server_stats(g, mc, channel, name, "event")
    IN /\ member_count[g] > MinMembers(g)
       /\ online_count[g] < member_count[g]
       /\ member_count' = mc
       /\ Len(passes) + Len(new) <= MaxPasses
       /\ passes' = passes \o new
       /\ last' = [op |-> "member_remove", guild |-> g, called |-> {g},
                   issued |-> Issued(new)]
       /\ UNCHANGED <<clock, xpVars, voiceVars, stat_channels, name, online_count,
                      loop_at, meteoVars>>

\* update_stats_loop: the timer starts an iteration over self.guilds.
LoopStart ==
    LET r == loop_run(1, name)
    IN /\ loop_at = 0
       /\ Len(passes) + Len(r.new) <= MaxPasses
       /\ passes' = passes \o r.new
       /\ loop_at' = r.at
       /\ last' = [op |-> "loop", called |-> r.called, issued |-> Issued(r.new)]
       /\ UNCHANGED <<clock, xpVars, voiceVars, stat_channels, name, member_count,
                      online_count, meteoVars>>

Without(seq, k) == SubSeq(seq, 1, k - 1) \o SubSeq(seq, k + 1, Len(seq))

\* The rename that pass k awaits returns (ok) or raises: update_server_stats
\* goes on to its next rename, or ends; the loop, when the pass was its own,
\* goes on to the next guilds.
RenameDone(k, ok) ==
    LET p == passes[k]
        kind == KindOrder[p.at]
        names == IF ok THEN [name EXCEPT ![p.guild][kind] = Label(kind, p.counts[kind])]
                 ELSE name
        nxt == IF ok
               THEN first_stale(stat_channels[p.guild], names[p.guild], p.counts, p.at + 1)
               ELSE 0
        r == loop_after(p, ok, nxt, names)
    IN /\ k \in 1..Len(passes)
       /\ name' = names
       /\ passes' = IF nxt = 0 THEN Without(passes, k) \o r.new
                    ELSE [passes EXCEPT ![k].at = nxt]
       /\ loop_at' = r.at
       /\ last' = [op |-> "rename_done", idx |-> k, guild |-> p.guild, at |-> p.at,
                   owner |-> p.owner, ok |-> ok,
                   next |-> nxt, called |-> r.called,
                   issued |-> Issued(r.new) \cup
                              (IF nxt = 0 THEN {} ELSE {<<p.guild, KindOrder[nxt]>>})]
       /\ UNCHANGED <<clock, xpVars, voiceVars, stat_channels, member_count,
                      online_count, meteoVars>>

Next ==
    \/ \E d \in TickSteps : Tick(d)
    \/ \E m \in Users, in_guild \in BOOLEAN, command \in BOOLEAN :
           OnMessage(m, in_guild, command)
    \/ \E m \in Users : OnMessageResume(m)
    \/ \E m \in Users, after \in {0} \cup VoiceChannels : OnVoiceStateUpdate(m, after)
    \/ \E g \in Guilds, ok \in BOOLEAN : VoiceSendDone(g, ok)
    \/ \E target \in Users : Rank(target)
    \/ Leaderboard

Spec == Init /\ [][Next]_vars

\* ------------------------------------------------- reconciliation alone

\* The first guild has its three stat channels, named as /setup_stats left
\* them or one count behind; nobody is in voice; general_data.json is empty.
InitStats ==
    /\ InitCommon
    /\ data = NoFn
    /\ \A u \in Users : channel[u] = 0
    /\ stat_channels = [g \in Guilds |-> IF g = GuildOrder[1] THEN Kinds ELSE {}]
    /\ member_count = [g \in Guilds |-> MinMembers(g)]
    /\ online_count = [g \in Guilds |-> 0]
    /\ \E behind \in {0, 1} :
           name = [g \in Guilds |-> [k \in Kinds |-> Label(k, Counts(member_count, channel, g)[k] + behind)]]

NextStats ==
    \/ \E m \in Users, after \in {0, 1} : OnVoiceStateUpdate(m, after)
    \/ \E g \in {GuildOrder[1]} : OnMemberJoin(g)
    \/ \E g \in {GuildOrder[1]} : OnMemberRemove(g)
    \/ LoopStart
    \/ \E k \in 1..MaxPasses, ok \in BOOLEAN : RenameDone(k, ok)

SpecStats == InitStats /\ [][NextStats]_vars

\* ------------------------------------------ add_xp and add_voice_time alone

\* The amounts add_xp is called with: the bounds of a message award, two
\* amounts that together cross the first threshold, and the gains of long
\* voice sessions.
XpAmounts == {0, MsgXpMin, MsgXpMax, 40, 120, 300}

\* The durations add_voice_time is called with, in seconds.
VoiceDurations == {0, 5, 6, 59, 60, 150}

\* db.add_xp(m, amount).
AddXp(m, amount) ==
    LET r == add_xp(DB, m, amount)
    IN /\ m \in DOMAIN data => data[m].xp <= MaxXp
       /\ SetDB(r.db)
       /\ last' = [op |-> "add_xp", uid |-> m, amount |-> amount,
                   levelup |-> r.levelup, level |-> r.level]
       /\ UNCHANGED <<clock, voice_sessions, pending, voiceVars, statVars, meteoVars>>

\* db.add_voice_time(m, seconds).
AddVoiceTime(m, seconds) ==
    LET r == add_voice_time(DB, m, seconds)
    IN /\ m \in DOMAIN data => data[m].voice_time <= MaxVoiceTime
       /\ SetDB(r.db)
       /\ last' = [op |-> "add_voice_time", uid |-> m, seconds |-> seconds,
                   xp_called |-> r.xp_called, levelup |-> r.levelup,
                   level |-> r.level]
       /\ UNCHANGED <<clock, voice_sessions, pending, voiceVars, statVars, meteoVars>>

\* An empty general_data.json, nobody in voice.
InitEmpty ==
    /\ Init
    /\ data = NoFn
    /\ \A u \in Users : channel[u] = 0

SpecAddXp == InitEmpty /\ [][\E m \in Humans, amount \in XpAmounts : AddXp(m, amount)]_vars

SpecVoiceTime ==
    InitEmpty /\ [][\E m \in Humans, seconds \in VoiceDurations : AddVoiceTime(m, seconds)]_vars

\* ------------------------------------------------- the loop over two guilds

\* Both guilds have their three stat channels, each guild's named as
\* /setup_stats left them or one count behind; nobody is in voice.
InitLoop ==
    /\ InitCommon
    /\ data = NoFn
    /\ \A u \in Users : channel[u] = 0
    /\ stat_channels = [g \in Guilds |-> Kinds]
    /\ member_count = [g \in Guilds |-> MinMembers(g)]
    /\ online_count = [g \in Guilds |-> 0]
    /\ \E behind \in [Guilds -> {0, 1}] :
           name = [g \in Guilds |->
                      [k \in Kinds |-> Label(k, Counts(member_count, channel, g)[k] + behind[g])]]

NextLoop ==
    \/ \E g \in Guilds : OnMemberJoin(g)
    \/ \E g \in Guilds : OnMemberRemove(g)
    \/ LoopStart
    \/ \E k \in 1..MaxPasses, ok \in BOOLEAN : RenameDone(k, ok)

SpecLoop == InitLoop /\ [][NextLoop]_vars

\* ---------------------------------------------- reconciliation, scheduled

\* The events that change a count: a bot enters or leaves voice (no pass
\* begins), a member joins or is removed (a pass begins).
NextLive ==
    \/ \E m \in Bots, after \in {0, 1} : OnVoiceStateUpdate(m, after)
    \/ \E g \in {GuildOrder[1]} : OnMemberJoin(g)
    \/ \E g \in {GuildOrder[1]} : OnMemberRemove(g)
    \/ LoopStart
    \/ \E k \in 1..MaxPasses, ok \in BOOLEAN : RenameDone(k, ok)

\* tasks.loop(minutes=10) starts an iteration whenever the last one is over,
\* and every awaited channel edit returns or raises.
SpecLive ==
    /\ InitStats
    /\ [][NextLive]_vars
    /\ WF_vars(LoopStart)
    /\ \A k \in 1..MaxPasses : WF_vars(\E ok \in BOOLEAN : RenameDone(k, ok))

\* ------------------------------------------------------ rank, leaderboard

\* Members that have a profile and to which the model gives no event.
Others == {"u2", "u3"}

\* The xp of the profiles general_data.json holds at the start.
RankXps == {0, MsgXpMin, MsgXpMax}

\* A profile an earlier run saved: created by /rank, or awarded one message.
SavedProfile(xp) ==
    [xp |-> xp, level |-> 1, messages |-> IF xp = 0 THEN 0 ELSE 1, voice_time |-> 0,
     last_xp |-> IF xp = 0 THEN 0 ELSE StartTime - 5]

\* The insertion orders of the profiles of the members in S.
Orders(S) ==
    {o \in UNION {[1..n -> S] : n \in 0..Cardinality(S)} :
        \A i, j \in DOMAIN o : i # j => o[i] # o[j]}

\* general_data.json holds profiles of any of three members, in any
\* insertion order; nobody is in voice.
InitRank ==
    /\ InitBot
    /\ \A u \in Users : channel[u] = 0
    /\ \E o \in Orders(Humans \cup Others) :
       \E xp \in [{o[i] : i \in DOMAIN o} -> RankXps] :
           /\ data = [u \in DOMAIN xp |-> SavedProfile(xp[u])]
           /\ order = o
           /\ file = [data |-> data, order |-> order]
    /\ stat_channels = [g \in Guilds |-> {}]
    /\ name = [g \in Guilds |-> [k \in Kinds |-> Label(k, 0)]]
    /\ member_count = [g \in Guilds |-> MinMembers(g)]
    /\ online_count = [g \in Guilds |-> 0]

NextRank ==
    \/ \E target \in Users \cup Others : Rank(target)
    \/ Leaderboard

SpecRank == InitRank /\ [][NextRank]_vars

\* ---------------------------------------------------------------- restart

\* A bug __init__ could have: the sessions of the last run are restored.
restart_sessions_kept(vs) == vs

\* GeneralBot.__init__: self.voice_sessions = {}, whatever the last run held.
restart_sessions(vs) == NoFn

\* The process stops and starts again: DataManager() loads general_data.json,
\* GeneralBot() starts with no session, and the handlers of the last run are
\* gone.  The platform's state (who is in voice, channel names) stays.
Restart ==
    /\ data' = file.data
    /\ order' = file.order
    /\ voice_sessions' = restart_sessions(voice_sessions)
    /\ pending' = [u \in Users |-> 0]
    /\ sending' = [g \in Guilds |-> 0]
    /\ passes' = <<>>
    /\ loop_at' = 0
    /\ last' = [op |-> "restart", dropped |-> DOMAIN voice_sessions]
    /\ UNCHANGED <<clock, file, channel, joined_at, stat_channels, name, member_count,
                   online_count, meteoVars>>

\* Nobody is in voice when the first run starts.
InitRestart ==
    /\ Init
    /\ \A u \in Users : channel[u] = 0

NextRestart ==
    \/ \E d \in TickSteps : Tick(d)
    \/ \E m \in Humans, after \in {0, 1} : OnVoiceStateUpdate(m, after)
    \/ \E g \in Guilds, ok \in BOOLEAN : VoiceSendDone(g, ok)
    \/ Restart

SpecRestart == InitRestart /\ [][NextRestart]_vars

\* ------------------------------------------------------------ meteo cities

\* The names MeteoFrance returns for the cities asked (place.name); names
\* that differ only in case are different names.
Cities == {"Paris", "paris", "Lyon"}

\* city_name in self.config[gid]["meteo_cities"]
has_city(list, city) == \E i \in 1..Len(list) : list[i] = city

\* list.remove(city_name): the first occurrence goes.
list_remove(list, city) ==
    LET i == CHOOSE i \in 1..Len(list) :
                 list[i] = city /\ \A j \in 1..(i - 1) : list[j] # city
    IN Without(list, i)

\* A bug add_meteo_city could have: the test for doubles is missing.
add_meteo_city_always(cfg, gid, city) ==
    LET c1 == IF gid \in DOMAIN cfg THEN cfg ELSE cfg @@ (gid :> <<>>)
    IN [cfg |-> [c1 EXCEPT ![gid] = Append(@, city)], result |-> TRUE, saved |-> TRUE]

\* add_meteo_city: the lists it leaves, what it returns and whether it
\* called save_config.
add_meteo_city(cfg, gid, city) ==
    LET c1 == IF gid \in DOMAIN cfg THEN cfg ELSE cfg @@ (gid :> <<>>)
    IN IF ~has_city(c1[gid], city)
       THEN [cfg |-> [c1 EXCEPT ![gid] = Append(@, city)], result |-> TRUE,
             saved |-> TRUE]
       ELSE [cfg |-> c1, result |-> FALSE, saved |-> FALSE]

\* remove_meteo_city: the lists it leaves, what it returns and whether it
\* called save_config.
remove_meteo_city(cfg, gid, city) ==
    IF gid \in DOMAIN cfg /\ has_city(cfg[gid], city)
    THEN [cfg |-> [cfg EXCEPT ![gid] = list_remove(@, city)], result |-> TRUE,
          saved |-> TRUE]
    ELSE [cfg |-> cfg, result |-> FALSE, saved |-> FALSE]

\* /meteo_add from line 430 on: db.add_meteo_city(guild.id, place.name).
MeteoAdd(g, city) ==
    LET r == add_meteo_city(meteo_cities, g, city)
    IN /\ meteo_cities' = r.cfg
       /\ first_added' = IF r.result /\ ~has_city(first_added[g], city)
                         THEN [first_added EXCEPT ![g] = Append(@, city)]
                         ELSE first_added
       /\ last' = [op |-> "add_meteo_city", guild |-> g, city |-> city,
                   result |-> r.result, saved |-> r.saved]
       /\ UNCHANGED <<clock, xpVars, voiceVars, statVars>>

\* /meteo_remove: db.remove_meteo_city(guild.id, ville).
MeteoRemove(g, city) ==
    LET r == remove_meteo_city(meteo_cities, g, city)
    IN /\ meteo_cities' = r.cfg
       /\ last' = [op |-> "remove_meteo_city", guild |-> g, city |-> city,
                   result |-> r.result, saved |-> r.saved]
       /\ UNCHANGED <<clock, xpVars, voiceVars, statVars, first_added>>

NextMeteo ==
    \/ \E g \in Guilds, city \in Cities : MeteoAdd(g, city)
    \/ \E g \in Guilds, city \in Cities : MeteoRemove(g, city)

SpecMeteo == InitEmpty /\ [][NextMeteo]_vars

\* ------------------------------------------------- messages over a long time

\* on_message for a message of member m that arrives, and is handled at once,
\* 11 s after the last step: random.randint returns amount.
OnMessageLater(m, amount) ==
    LET now == clock + Cooldown + 1
        r == on_message_xp(DB, m, now, amount)
    IN /\ m \in DOMAIN data => data[m].xp <= MaxXp
       /\ clock' = now
       /\ SetDB(r.db)
       /\ last' = [op |-> "message", uid |-> m,
                   outcome |-> IF r.awarded THEN "awarded" ELSE "cooldown",
                   levelup |-> r.levelup]
       /\ UNCHANGED <<voice_sessions, pending, voiceVars, statVars, meteoVars>>

\* Message events only: each message comes 11 s after the last step, or at
\* the time of the last step.
NextMessages ==
    \/ \E m \in Humans, amount \in MsgXpMin..MsgXpMax : OnMessageLater(m, amount)
    \/ \E m \in Humans : OnMessage(m, TRUE, FALSE)

SpecMessages == InitEmpty /\ [][NextMessages]_vars

\* The time up to which the long run of message and voice events goes on.
MaxEngageClock == 97

\* on_message 11 s after the last step, while the long run goes on.
OnMessageEngage(m, amount) ==
    /\ clock < MaxEngageClock
    /\ OnMessageLater(m, amount)

\* Message and voice events over a long time: a voice session lasts as long
\* as the messages handled during it are apart.
NextEngage ==
    \/ \E m \in Humans, amount \in MsgAmounts : OnMessageEngage(m, amount)
    \/ \E m \in Humans : OnMessage(m, TRUE, FALSE)
    \/ \E m \in Humans, after \in {0, 1} : OnVoiceStateUpdate(m, after)
    \/ \E g \in Guilds, ok \in BOOLEAN : VoiceSendDone(g, ok)

SpecEngage == InitEmpty /\ [][NextEngage]_vars

\* ----------------------------------------------------------------- claims

\* The profile of member u before a step (the default one when it has none).
Pre(u) == IF u \in DOMAIN data THEN data[u] ELSE NewProfile

MessageHandled == last'.op = "message" /\ last'.outcome \in {"awarded", "cooldown"}

\* C1: after every add_xp call (any amount >= 0) the profile satisfies
\* xp < threshold(level): no threshold is left crossed but uncounted.
C1_LevelUpExact ==
    last.op = "add_xp" => data[last.uid].xp < next_level_xp(data[last.uid].level)

\* C2: over any sequence of message events, voice events, rank and
\* leaderboard queries, no member's xp or level ever decreases, no profile
\* disappears, and xp >= 0 and level >= 1 throughout.
C2_XpLevelMonotonic ==
    [][/\ \A u \in DOMAIN data :
              /\ u \in DOMAIN data'
              /\ data'[u].xp >= data[u].xp
              /\ data'[u].level >= data[u].level
       /\ \A u \in DOMAIN data' : data'[u].xp >= 0 /\ data'[u].level >= 1]_vars

\* A profile that message awards and a voice award have raised to level 2.
C2_Witness ==
    \E u \in DOMAIN data :
        data[u].level >= 2 /\ data[u].voice_time > 0 /\ data[u].messages > 10

\* C3: a message handled less than 10 s after the member's last awarded
\* message changes neither xp, level nor messages.
C3_CooldownIdempotent ==
    [][\A m \in Users :
          (/\ MessageHandled
           /\ last'.uid = m
           /\ m \in DOMAIN data
           /\ data[m].messages > 0
           /\ clock - data[m].last_xp < Cooldown)
          => /\ last'.outcome = "cooldown"
             /\ data'[m].xp = data[m].xp
             /\ data'[m].level = data[m].level
             /\ data'[m].messages = data[m].messages]_vars

\* A second message, between 1 and 9 s after the member's first awarded one,
\* has been handled and rejected.
C3_Witness ==
    /\ last.op = "message"
    /\ last.outcome = "cooldown"
    /\ data[last.uid].messages = 1
    /\ clock - data[last.uid].last_xp \in 1..(Cooldown - 1)

\* C4: a message is awarded iff now - last_xp > 10 (strictly), an awarded
\* message sets last_xp to now, and a rejected one leaves the store, the
\* profile's last_xp included, unchanged: every message is decided against
\* the time of the previous awarded message.
C4_CooldownFrame ==
    [][\A m \in Users :
          (MessageHandled /\ last'.uid = m)
          => /\ (last'.outcome = "awarded") <=> (clock - Pre(m).last_xp > Cooldown)
             /\ last'.outcome = "awarded" => data'[m].last_xp = clock
             /\ last'.outcome = "cooldown" => data' = data /\ file' = file]_vars

\* A message handled exactly 10 s after the awarded one has been rejected.
C4_Witness ==
    /\ last.op = "message"
    /\ last.outcome = "cooldown"
    /\ data[last.uid].messages > 0
    /\ clock - data[last.uid].last_xp = Cooldown

\* C5 as stated: a duration below 60 s grants no XP (add_xp is not called),
\* and 60 s grants exactly 10.
C5_NoXpBelowMinute ==
    [][last'.op = "add_voice_time"
       => LET u == last'.uid
              sec == last'.seconds
          IN /\ data'[u].voice_time = Pre(u).voice_time + sec
             /\ sec < 60 => /\ ~last'.xp_called
                            /\ data'[u].xp = Pre(u).xp
                            /\ data'[u].level = Pre(u).level
             /\ sec = 60 => data'[u].xp = Pre(u).xp + 10]_vars

\* C5 as amended: voice_time grows by the duration; 59 s grants 9 XP and
\* 60 s grants 10; only a duration below 6 s grants none (add_xp is not
\* called, xp and level unchanged).
C5_VoiceGain ==
    [][last'.op = "add_voice_time"
       => LET u == last'.uid
              sec == last'.seconds
          IN /\ data'[u].voice_time = Pre(u).voice_time + sec
             /\ sec < 6 => /\ ~last'.xp_called
                           /\ data'[u].xp = Pre(u).xp
                           /\ data'[u].level = Pre(u).level
             /\ sec >= 6 => last'.xp_called
             /\ sec = 59 => data'[u].xp = Pre(u).xp + 9
             /\ sec = 60 => data'[u].xp = Pre(u).xp + 10]_vars

\* add_voice_time(59) has called add_xp.
C5_Witness ==
    last.op = "add_voice_time" /\ last.seconds = 59 /\ last.xp_called

\* C6: a leave event of a member without a voice session changes neither the
\* store nor the file nor voice_sessions, and calls add_voice_time not once.
C6_LeaveWithoutSession ==
    [][(/\ last'.op = "voice"
        /\ last'.kind = "leave"
        /\ last'.uid \notin DOMAIN voice_sessions)
       => /\ data' = data /\ order' = order /\ file' = file
          /\ voice_sessions' = voice_sessions
          /\ last'.calls = 0
          /\ ~last'.levelup]_vars

\* A human member in voice since before the start has left.
C6_Witness ==
    /\ last.op = "voice"
    /\ last.kind = "leave"
    /\ ~last.bot
    /\ ~last.had_session

\* C7: a move changes neither voice_sessions nor the store, and the leave
\* that ends a session awards the time since the member entered voice.
C7_MoveKeepsJoinTime ==
    [][\A m \in Humans :
          (last'.op = "voice" /\ last'.uid = m)
          => /\ last'.kind = "move"
                => /\ voice_sessions' = voice_sessions
                   /\ data' = data
                   /\ last'.calls = 0
             /\ (last'.kind = "leave" /\ m \in DOMAIN voice_sessions)
                => /\ last'.duration = clock - joined_at[m]
                   /\ data'[m].voice_time = Pre(m).voice_time + (clock - joined_at[m])]_vars

\* A member with a session has moved to another channel some time after
\* entering voice, and the session still holds the time of the join.
C7_Witness ==
    /\ last.op = "voice"
    /\ last.kind = "move"
    /\ last.had_session
    /\ last.uid \in DOMAIN voice_sessions
    /\ voice_sessions[last.uid] = joined_at[last.uid]
    /\ joined_at[last.uid] < clock

\* C8: add_voice_time is called at most once in a step, only by a leave that
\* finds the member's session and removes it; a session appears only by a
\* join and exists only while the member is in voice.
C8_OneAwardPerSession ==
    [][\A m \in Humans :
          /\ (last'.op = "voice" /\ last'.uid = m /\ last'.kind = "leave"
              /\ m \in DOMAIN voice_sessions)
             => last'.calls = 1
          /\ (last'.op = "voice" /\ last'.uid = m /\ last'.calls > 0)
             => /\ last'.calls = 1
                /\ last'.kind = "leave"
                /\ m \in DOMAIN voice_sessions
          /\ (last'.op = "voice" /\ last'.uid = m /\ last'.kind = "leave")
             => m \notin DOMAIN voice_sessions'
          /\ (m \notin DOMAIN voice_sessions /\ m \in DOMAIN voice_sessions')
             => last'.op = "voice" /\ last'.uid = m /\ last'.kind = "join"
          /\ m \in DOMAIN voice_sessions' => channel'[m] # 0]_vars

\* A leave has consumed the member's session in one add_voice_time call.
C8_Witness ==
    /\ last.op = "voice"
    /\ last.kind = "leave"
    /\ last.calls = 1
    /\ last.uid \notin DOMAIN voice_sessions

\* Every bound display channel of guild g carries the label of the current
\* count.
AllFresh(g) ==
    \A k \in stat_channels[g] : name[g][k] = Label(k, Counts(member_count, channel, g)[k])

StatsOps == {"voice", "voice_sent", "member_join", "member_remove", "loop", "rename_done"}

\* C9: a step that begins update_server_stats for a guild whose bound
\* channels all carry the label of the current count issues no rename for
\* that guild.
C9_NoRenameWhenFresh ==
    \A g \in Guilds :
        (last.op \in StatsOps /\ g \in last.called /\ AllFresh(g))
        => \A k \in Kinds : <<g, k>> \notin last.issued

\* The loop reconciles the first guild, whose three channels an earlier pass
\* renamed after a member joined, and renames nothing.
C9_Witness ==
    /\ last.op = "loop"
    /\ GuildOrder[1] \in last.called
    /\ stat_channels[GuildOrder[1]] = Kinds
    /\ member_count[GuildOrder[1]] > MinMembers(GuildOrder[1])
    /\ AllFresh(GuildOrder[1])
    /\ last.issued = {}

\* C10: when a rename of a pass fails and a later display channel of the
\* pass is bound with a name that differs from its label, the pass goes on
\* to rename it.
C10_IndependentRenames ==
    [][(last'.op = "rename_done" /\ ~last'.ok)
       => LET p == passes[last'.idx]
              stale == {i \in (p.at + 1)..Len(KindOrder) :
                           /\ KindOrder[i] \in stat_channels[p.guild]
                           /\ name[p.guild][KindOrder[i]]
                                  # Label(KindOrder[i], p.counts[KindOrder[i]])}
          IN stale # {} => /\ last'.next \in stale
                           /\ <<p.guild, KindOrder[last'.next]>> \in last'.issued]_vars

\* C11: when a pass of update_stats_loop is over, also by a rename that
\* raised, the loop goes on: it calls update_server_stats for every later
\* guild up to the one whose pass it then awaits, or to the end.
C11_LoopContinues ==
    [][(/\ last'.op = "rename_done"
        /\ passes[last'.idx].owner = "loop"
        /\ (~last'.ok \/ last'.next = 0))
       => /\ last'.guild = GuildOrder[loop_at]
          /\ loop_at' = 0 \/ loop_at' > loop_at
          /\ \A j \in (loop_at + 1)..Len(GuildOrder) :
                 (loop_at' = 0 \/ j <= loop_at') => GuildOrder[j] \in last'.called
          /\ loop_at' # 0
             => \E q \in 1..Len(passes') : /\ passes'[q].owner = "loop"
                                           /\ passes'[q].guild = GuildOrder[loop_at']]_vars

\* A rename of the first guild's pass raised, and the loop has called
\* update_server_stats for the second guild, which renames a channel.
C11_Witness ==
    /\ last.op = "rename_done"
    /\ ~last.ok
    /\ last.guild = GuildOrder[1]
    /\ GuildOrder[2] \in last.called
    /\ \E k \in Kinds : <<GuildOrder[2], k>> \in last.issued

\* The counts update_server_stats reads for guild g.
CountsOf(g) == Counts(member_count, channel, g)

\* C12: if from some time on the counts of a guild do not change and no
\* rename fails, then from some time on every bound display channel carries
\* the label of the current count.
C12_EventuallyFresh ==
    \A g \in Guilds :
        (/\ <>[][CountsOf(g)' = CountsOf(g)]_vars
         /\ <>[](last.op = "rename_done" => last.ok))
        => <>[]AllFresh(g)

\* A bot is in voice (its join began no pass), the loop's pass has renamed
\* the voice channel, no pass is in flight and the three channels of the
\* first guild carry the current counts.
C12_Witness ==
    /\ \E b \in Bots : channel[b] # 0
    /\ stat_channels[GuildOrder[1]] = Kinds
    /\ last.op = "rename_done"
    /\ last.owner = "loop"
    /\ last.guild = GuildOrder[1]
    /\ KindOrder[last.at] = "voice"
    /\ last.ok
    /\ passes = <<>>
    /\ AllFresh(GuildOrder[1])

\* The position of uid in the insertion order (0: none).
OrderPos(ord, uid) ==
    IF \E i \in 1..Len(ord) : ord[i] = uid
    THEN CHOOSE i \in 1..Len(ord) : ord[i] = uid
    ELSE 0

\* C13: the rank of the target is its position in get_leaderboard's list
\* (the store holds no more than 50 profiles); that list is by descending
\* xp, members of equal xp in insertion order; the rank is 1 for the one
\* member of strictly highest xp.
C13_RankIsPosition ==
    [][last'.op = "rank"
       => LET u == last'.uid
              top == get_leaderboard([data |-> data', order |-> order', file |-> file'])
              above == {v \in DOMAIN data' :
                           \/ data'[v].xp > data'[u].xp
                           \/ /\ data'[v].xp = data'[u].xp
                              /\ OrderPos(order', v) < OrderPos(order', u)}
          IN /\ Cardinality(DOMAIN data') <= LeaderboardCap
             /\ Len(top) = Cardinality(DOMAIN data')
             /\ last'.found
             /\ last'.rank_pos \in 1..Len(top)
             /\ top[last'.rank_pos] = u
             /\ last'.rank_pos = 1 + Cardinality(above)
             /\ (\A v \in DOMAIN data' \ {u} : data'[v].xp < data'[u].xp)
                => last'.rank_pos = 1
             /\ \A i, j \in 1..Len(top) :
                    i < j => /\ data'[top[i]].xp >= data'[top[j]].xp
                             /\ data'[top[i]].xp = data'[top[j]].xp
                                => OrderPos(order', top[i]) < OrderPos(order', top[j])]_vars

\* The rank of a member has been computed among three profiles, one of equal
\* xp inserted before it and one of lower xp: it is second.
C13_Witness ==
    /\ last.op = "rank"
    /\ Cardinality(DOMAIN data) = 3
    /\ last.rank_pos = 2
    /\ \E v \in DOMAIN data \ {last.uid} :
           /\ data[v].xp = data[last.uid].xp
           /\ OrderPos(order, v) < OrderPos(order, last.uid)
    /\ \E v \in DOMAIN data : data[v].xp < data[last.uid].xp

\* C14: a rank or leaderboard query leaves self.data (its keys and every
\* profile) and general_data.json unchanged, for any target.
C14_QueriesArePure ==
    [][last'.op \in {"rank", "leaderboard"}
       => data' = data /\ order' = order /\ file' = file]_vars

\* C15: the rank query for a member that has no profile reports "N/A".
C15_UnknownMemberNA ==
    [][(last'.op = "rank" /\ last'.uid \notin DOMAIN data) => ~last'.found]_vars

\* C16: between the steps of the handlers, general_data.json holds what
\* self.data holds: the same members with the same fields.
C16_FileIsMemory == file.data = data /\ file.order = order

\* A member in voice for whom voice_sessions holds nothing.
NoSession(m) == channel[m] # 0 /\ m \notin DOMAIN voice_sessions

\* C17: a restart empties voice_sessions and loads the profiles as last
\* saved; a member in voice without a session stays without one until the
\* leave, and that leave calls add_voice_time not once and changes neither
\* self.data nor general_data.json.
C17_RestartDropsSessions ==
    [][/\ last'.op = "restart"
          => /\ voice_sessions' = NoFn
             /\ data' = file.data
             /\ file' = file
             /\ channel' = channel
       /\ \A m \in Humans :
              NoSession(m)
              => \/ NoSession(m)'
                 \/ /\ channel'[m] = 0
                    /\ last'.op = "voice" /\ last'.uid = m /\ last'.kind = "leave"
                    /\ last'.calls = 0
                    /\ data' = data
                    /\ file' = file]_vars

\* A member whose voice time of an earlier session is saved entered voice
\* again, the process restarted, and the member has left: nothing was added.
C17_Witness ==
    /\ last.op = "voice"
    /\ last.kind = "leave"
    /\ ~last.had_session
    /\ last.calls = 0
    /\ last.uid \in DOMAIN data
    /\ data[last.uid].voice_time > 0
    /\ file.data = data

\* C18: a message or a voice event of a bot changes no profile, not the
\* file, and no voice session.
C18_BotsIgnored ==
    [][(last'.op \in {"message", "voice"} /\ last'.uid \in Bots)
       => /\ data' = data /\ order' = order /\ file' = file
          /\ voice_sessions' = voice_sessions
          /\ pending' = pending
          /\ \A b \in Bots : b \notin DOMAIN voice_sessions']_vars

\* A bot that had entered voice has left it, some time later.
C18_Witness ==
    /\ last.op = "voice"
    /\ last.uid \in Bots
    /\ last.kind = "leave"
    /\ clock > StartTime

\* The city list of guild g ([] when the guild has none).
CitiesOf(g) == IF g \in DOMAIN meteo_cities THEN meteo_cities[g] ELSE <<>>

\* The same after the step.
NewCitiesOf(g) == IF g \in DOMAIN meteo_cities' THEN meteo_cities'[g] ELSE <<>>

NoDoubles(list) == \A i, j \in 1..Len(list) : i # j => list[i] # list[j]

\* add_meteo_city of a name in the list returns False and leaves the list;
\* remove_meteo_city of a name in the list returns True and leaves the list
\* without it; no list holds a name twice.
MeteoReturns ==
    \A g \in Guilds :
        /\ (/\ last'.op = "add_meteo_city"
            /\ last'.guild = g
            /\ has_city(CitiesOf(g), last'.city))
           => ~last'.result /\ NewCitiesOf(g) = CitiesOf(g)
        /\ (/\ last'.op = "remove_meteo_city"
            /\ last'.guild = g
            /\ has_city(CitiesOf(g), last'.city))
           => last'.result /\ ~has_city(NewCitiesOf(g), last'.city)
        /\ NoDoubles(NewCitiesOf(g))

\* C19 as stated: the list holds no name twice, add and remove of a present
\* name return False and True, and the list is in the order in which its
\* cities were first added.
C19_FirstAddedOrder ==
    [][/\ MeteoReturns
       /\ \A g \in Guilds :
              NewCitiesOf(g) = SelectSeq(first_added'[g],
                                         LAMBDA c : has_city(NewCitiesOf(g), c))]_vars

\* C19 as amended: the list holds no name twice, add and remove of a present
\* name return False and True, an added name goes to the end of the list and
\* a removal keeps the order of the others: the list is in the order of each
\* city's latest addition.
C19_LatestAddedOrder ==
    [][/\ MeteoReturns
       /\ \A g \in Guilds :
              LET old == CitiesOf(g)
                  here == last'.guild = g
              IN /\ (last'.op = "add_meteo_city" /\ here /\ ~has_city(old, last'.city))
                    => last'.result /\ NewCitiesOf(g) = Append(old, last'.city)
                 /\ (last'.op = "remove_meteo_city" /\ here /\ has_city(old, last'.city))
                    => NewCitiesOf(g) = SelectSeq(old, LAMBDA c : c # last'.city)
                 /\ (last'.op = "remove_meteo_city" /\ here /\ ~has_city(old, last'.city))
                    => ~last'.result /\ NewCitiesOf(g) = old
                 /\ ~here => NewCitiesOf(g) = old]_vars

\* A city removed and added again stands after one that was first added
\* later.
C19_Witness ==
    \E g \in DOMAIN meteo_cities :
        /\ last.op = "add_meteo_city"
        /\ last.guild = g
        /\ last.result
        /\ Len(meteo_cities[g]) = 2
        /\ Len(first_added[g]) = 2
        /\ meteo_cities[g][1] = first_added[g][2]
        /\ meteo_cities[g][2] = first_added[g][1]

\* C20: the handler of every voice event (of any member, a bot too) and of
\* every member join or removal calls update_server_stats for the guild (a
\* voice handler that sends a level-up message calls it after the send).
C20_EventTriggersPass ==
    [][/\ (last'.op = "voice" /\ ~last'.levelup) => GuildOf(last'.uid) \in last'.called
       /\ last'.op \in {"member_join", "member_remove"} => last'.guild \in last'.called]_vars

\* C21: whenever add_xp reports a level-up, the level rises by exactly 1 and
\* the member's xp before the call was below the threshold of the level
\* before the call: the award itself made xp cross the threshold.
C21_LevelUpOnlyOnCrossing ==
    [][(last'.op = "add_xp" /\ last'.levelup)
       => LET u == last'.uid
          IN /\ data'[u].level = Pre(u).level + 1
             /\ last'.level = data'[u].level
             /\ Pre(u).xp < next_level_xp(Pre(u).level)
             /\ data'[u].xp >= next_level_xp(Pre(u).level)]_vars

\* C22: whatever handlers of the member are suspended in process_commands,
\* a message handler awards only when more than 10 s have passed since the
\* member's last award, and then adds exactly its amount to xp, 1 to
\* messages and sets last_xp to now, on the values the store held just
\* before and saved at once; a handler that suspends, is rejected or is
\* ignored changes no profile.
C22_NoLostUpdate ==
    [][\A m \in Humans :
          (last'.op = "message" /\ last'.uid = m)
          => /\ last'.outcome = "awarded"
                => /\ clock - Pre(m).last_xp > Cooldown
                   /\ data'[m].xp - Pre(m).xp \in MsgXpMin..MsgXpMax
                   /\ data'[m].messages = Pre(m).messages + 1
                   /\ data'[m].last_xp = clock
                   /\ file'.data = data'
                   /\ \A u \in DOMAIN data \ {m} : data'[u] = data[u]
             /\ last'.outcome # "awarded" => data' = data /\ file' = file
             /\ pending'[m] > pending[m] <=> last'.outcome = "suspended"]_vars

\* A message of a member has been awarded while another handler of the same
\* member is suspended in process_commands.
C22_Witness ==
    \E m \in Humans :
        /\ pending[m] > 0
        /\ last.op = "message"
        /\ last.uid = m
        /\ last.outcome = "awarded"
        /\ data[m].last_xp = clock

\* C23: from an empty store and under message awards only (15 to 25 XP
\* each), every profile has xp below the threshold of its level, and the
\* next threshold is more than the largest message award further.
C23_MessageAwardsKeepBelowThreshold ==
    \A u \in DOMAIN data :
        /\ data[u].xp < next_level_xp(data[u].level)
        /\ next_level_xp(data[u].level + 1) - next_level_xp(data[u].level) > MsgXpMax

\* A message award has raised a member to level 4, past three thresholds.
C23_Witness ==
    /\ last.op = "message"
    /\ last.outcome = "awarded"
    /\ last.levelup
    /\ data[last.uid].level = 4
    /\ data[last.uid].xp >= next_level_xp(3)

\* The profile of u after the step (get_user's default if it has none).
Post(u) == IF u \in DOMAIN data' THEN data'[u] ELSE NewProfile

\* C24: from an empty store, after message and voice events every profile
\* has 15 * messages <= xp, and one that has no voice time has
\* xp <= 25 * messages; messages goes up by exactly one at a message award
\* and changes at no other step.
C24_MessageCountBounds ==
    [][/\ \A u \in DOMAIN data' :
              /\ MsgXpMin * data'[u].messages <= data'[u].xp
              /\ data'[u].voice_time = 0 => data'[u].xp <= MsgXpMax * data'[u].messages
       /\ \A u \in Users :
              Post(u).messages =
                  IF last'.op = "message" /\ last'.uid = u /\ last'.outcome = "awarded"
                  THEN Pre(u).messages + 1
                  ELSE Pre(u).messages]_vars

\* A member got message awards and a voice award, and a message of theirs
\* was then rejected by the cooldown.
C24_Witness ==
    /\ last.op = "message" /\ last.outcome = "cooldown"
    /\ data[last.uid].messages >= 2
    /\ xp_gain(data[last.uid].voice_time) > 0
    /\ data[last.uid].xp > MsgXpMax * data[last.uid].messages

====
